---- MODULE Spec2Model ----
(***************************************************************************)
(* Model of PiHole-domain-aggregator: the domain validator and parser, the *)
(* addlist filter and www expansion, and the worker pool that runs one     *)
(* addlist job per configured name.                                        *)
(*                                                                         *)
(* Strings are sequences of Unicode code points (Rust `char`s as naturals).*)
(* An Option<T> is a record: [some |-> FALSE] or [some |-> TRUE, val |-> v]*)
(***************************************************************************)
EXTENDS Integers, Sequences, FiniteSets, TLC

VARIABLES
    cores,      \* pool: num_cpus::get() of the host
    config,     \* pool: the Config (threads: 0 is None, addlist names, whitelist)
    web,        \* pool: what each URL answers to a GET
    pc,         \* pool: position of the main thread in run and in Drop
    capacity,   \* pool: workers.len()
    wstate,     \* pool: per worker, the position of its thread
    wjob,       \* pool: per worker, the name whose job it runs (0: none)
    wlocal,     \* pool: per worker, local_reduced_whitelist of the running job
    wdata,      \* pool: per worker, the filtered domain set of the running job
    lock,       \* pool: the worker holding the receiver's mutex (0: free)
    queue,      \* pool: the channel, messages sent and not yet received
    tosubmit,   \* pool: names the for loop of run has not reached yet
    gwl,        \* pool: the Arc'ed Global Whitelist
    wlbuilds,   \* pool: how often the Global Whitelist has been computed
    jstate,     \* pool: per name, how far its job has come
    jowner,     \* pool: per name, the worker that received its job (0: none)
    dequeues,   \* pool: per name, how often its job has been received
    jseen,      \* pool: per name, the Global Whitelist values its job has read
    sunk,       \* pool: per name, the line sequences handed to write_to_file
    termsent,   \* pool: Terminate sends Drop has performed
    consumed,   \* pool: per worker, Terminate messages received
    sendfail,   \* pool: sends of execute that returned Err
    joined,     \* pool: worker threads Drop has joined
    submitted,  \* pool: the names whose job was sent, in the order of the sends
    taken,      \* pool: the names whose job was received, in the order of the receives
    aweb,       \* addlist: what each URL answers to a GET
    acfg,       \* addlist: the configuration (sources, whitelist, prefix, suffix)
    aglobal,    \* addlist: the Global Whitelist handed to addlist
    alocal,     \* addlist: local_reduced_whitelist
    adata,      \* addlist: the filtered domain set handed to mutate
    alist,      \* addlist: the Option<Addlist> returned
    apc,        \* addlist: position inside addlist
    arequests,  \* addlist: per URL, the GET requests sent to it
    input,      \* validator: the raw token / body handed to validate and parse
    vout,       \* validator: validate(input), an Option<String>
    vagain,     \* validator: validate applied to the value of vout
    pout,       \* validator: parse(input), a set of strings
    tout,       \* validator: truncate(input)
    vpc,        \* validator: position of the validator driver
    mdomains,   \* mutate: the domain set handed to mutate
    mcfg,       \* mutate: the configuration (prefix, suffix)
    mlist,      \* mutate: the line sequence mutate returned
    magain,     \* mutate: mutate applied to the lines of mlist
    mpc,        \* mutate: position of the mutate driver
    slist,      \* sink: addlist.list handed to write_to_file
    ssize,      \* sink: config.size (0 is None)
    sfail,      \* sink: the File::create call that fails, counted from 1 (0: none)
    sfiles,     \* sink: the files written, file name to content
    sresult,    \* sink: what write_to_file returned
    spc         \* sink: position of the sink driver

vvars == <<input, vout, vagain, pout, tout, vpc>>

pvars == <<cores, config, web, pc, capacity, wstate, wjob, wlocal, wdata, lock,
           queue, tosubmit, gwl, wlbuilds, jstate, jowner, dequeues, jseen, sunk,
           termsent, consumed, sendfail, joined, submitted, taken>>

avars == <<aweb, acfg, aglobal, alocal, adata, alist, apc, arequests>>

mvars == <<mdomains, mcfg, mlist, magain, mpc>>

svars == <<slist, ssize, sfail, sfiles, sresult, spc>>

None == [some |-> FALSE]

Some(v) == [some |-> TRUE, val |-> v]

(***************************************************************************)
(* Bounds of the validator inputs.                                         *)
(***************************************************************************)
MaxLen == 5

MaxPieces == 3

(***************************************************************************)
(* Bounds of the pool: hosts, configured thread counts, addlist names.     *)
(***************************************************************************)
MaxCores == 4

MaxThreads == 1

MaxJobs == 2

MaxDomains == 2

MaxLines == 4

MaxSize == 3

MaxPrefix == 3

(***************************************************************************)
(* Characters.                                                             *)
(***************************************************************************)
DOT == 46

HYPHEN == 45

COMMENT == 35

VALID_CHARS == {HYPHEN, DOT}

PUNY == <<120, 110, 45, 45>>

WWW == <<119, 119, 119, 46>>

is_ascii(c) == c < 128

is_ascii_digit(c) == c >= 48 /\ c <= 57

is_ascii_alphabetic(c) == (c >= 65 /\ c <= 90) \/ (c >= 97 /\ c <= 122)

is_ascii_alphanumeric(c) == is_ascii_alphabetic(c) \/ is_ascii_digit(c)

\* char::is_alphanumeric (Unicode): ASCII letters and digits, and of the
\* non-ASCII code points the model uses: U+00FC (u umlaut), U+00DC (U umlaut),
\* U+00F6 (o umlaut) are letters, U+00B2 (superscript two) is numeric;
\* U+20AC (euro sign) is neither.
is_alphanumeric(c) == is_ascii_alphanumeric(c) \/ c \in {252, 220, 246, 178}

\* char::is_whitespace for the code points the model uses.
is_whitespace(c) ==
    c \in {9, 10, 11, 12, 13, 32, 133, 160, 5760, 8232, 8233, 8239, 8287, 12288}
        \cup (8192..8202)

\* str::to_lowercase, per code point.
to_lowercase_char(c) ==
    IF c >= 65 /\ c <= 90 THEN c + 32
    ELSE IF c = 220 THEN 252
    ELSE c

to_lowercase(s) == [i \in 1..Len(s) |-> to_lowercase_char(s[i])]

(***************************************************************************)
(* String helpers of the Rust standard library.                            *)
(***************************************************************************)
\* str::find(char): index (1-based) of the first occurrence, 0 when absent.
FindChar(s, c) ==
    IF \E i \in 1..Len(s) : s[i] = c
    THEN CHOOSE i \in 1..Len(s) : s[i] = c /\ \A j \in 1..(i - 1) : s[j] # c
    ELSE 0

\* str::split(char): always at least one piece; empty pieces are kept.
RECURSIVE Split(_, _)
Split(s, c) ==
    LET i == FindChar(s, c)
    IN  IF i = 0 THEN <<s>>
        ELSE <<SubSeq(s, 1, i - 1)>> \o Split(SubSeq(s, i + 1, Len(s)), c)

\* [String]::join(sep)
RECURSIVE Join(_, _)
Join(parts, sep) ==
    IF Len(parts) = 0 THEN <<>>
    ELSE IF Len(parts) = 1 THEN parts[1]
    ELSE parts[1] \o sep \o Join(Tail(parts), sep)

starts_with(s, p) == Len(s) >= Len(p) /\ SubSeq(s, 1, Len(p)) = p

Range(s) == {s[i] : i \in 1..Len(s)}

(***************************************************************************)
(* punycode::encode (RFC 3492, section 6.3), on 32 bit unsigned integers.  *)
(***************************************************************************)
BASE == 36

TMIN == 1

TMAX == 26

SKEW == 38

DAMP == 700

INITIAL_BIAS == 72

INITIAL_N == 128

\* delta + diff * count > u32::MAX, which is the test of the encoder,
\* diff > (u32::MAX - delta) / count, computed in 16 bit halves: the sum does
\* not fit the integers of the model checker.  For count < 32768.
ExceedsU32(delta, diff, count) ==
    (diff \div 65536) * count
        + (((diff % 65536) * count + delta) \div 65536) >= 65536

PunyDigit(d) == IF d < 26 THEN 97 + d ELSE 22 + d

PunyThreshold(k, bias) ==
    IF k <= bias THEN TMIN
    ELSE IF k >= bias + TMAX THEN TMAX
    ELSE k - bias

RECURSIVE PunyVarInt(_, _, _)
PunyVarInt(q, k, bias) ==
    LET t == PunyThreshold(k, bias)
    IN  IF q < t THEN <<PunyDigit(q)>>
        ELSE <<PunyDigit(t + ((q - t) % (BASE - t)))>>
             \o PunyVarInt((q - t) \div (BASE - t), k + BASE, bias)

RECURSIVE PunyAdaptLoop(_, _)
PunyAdaptLoop(delta, k) ==
    IF delta > ((BASE - TMIN) * TMAX) \div 2
    THEN PunyAdaptLoop(delta \div (BASE - TMIN), k + BASE)
    ELSE k + (((BASE - TMIN + 1) * delta) \div (delta + SKEW))

PunyAdapt(delta, numpoints, firsttime) ==
    LET d == IF firsttime THEN delta \div DAMP ELSE delta \div 2
    IN  PunyAdaptLoop(d + (d \div numpoints), 0)

\* One pass over the input for the current code point st.n.
RECURSIVE PunyInner(_, _, _, _)
PunyInner(inp, i, b, st) ==
    IF i > Len(inp) THEN st
    ELSE IF inp[i] < st.n
    THEN PunyInner(inp, i + 1, b, [st EXCEPT !.delta = st.delta + 1])
    ELSE IF inp[i] = st.n
    THEN PunyInner(inp, i + 1, b,
             [st EXCEPT !.out = st.out \o PunyVarInt(st.delta, BASE, st.bias),
                        !.bias = PunyAdapt(st.delta, st.h + 1, st.h = b),
                        !.delta = 0,
                        !.h = st.h + 1])
    ELSE PunyInner(inp, i + 1, b, st)

\* the least code point of the input that is not below n
PunyMin(inp, n) ==
    CHOOSE c \in Range(inp) : c >= n /\ \A d \in Range(inp) : d >= n => c <= d

\* after the pass over the input: delta += 1, n += 1
PunyBump(st) == [st EXCEPT !.delta = st.delta + 1, !.n = st.n + 1]

RECURSIVE PunyOuter(_, _, _)
\* one round of the main loop for the next code point m; the encoding fails
\* when m - n > (u32::MAX - delta) / (h + 1)
PunyRound(inp, b, st, m) ==
    IF ExceedsU32(st.delta, m - st.n, st.h + 1)
    THEN [st EXCEPT !.ok = FALSE]
    ELSE PunyOuter(inp, b, PunyBump(PunyInner(inp, 1, b,
             [st EXCEPT !.delta = st.delta + (m - st.n) * (st.h + 1), !.n = m])))

PunyOuter(inp, b, st) ==
    IF ~st.ok \/ st.h >= Len(inp) THEN st
    ELSE PunyRound(inp, b, st, PunyMin(inp, st.n))

\* Result<String, ()> as an Option
PunyResult(st) == IF st.ok THEN Some(st.out) ELSE None

PunyStart(inp, basic) ==
    PunyResult(PunyOuter(inp, Len(basic),
        [n |-> INITIAL_N, delta |-> 0, bias |-> INITIAL_BIAS, h |-> Len(basic),
         out |-> IF Len(basic) > 0 THEN basic \o <<HYPHEN>> ELSE basic,
         ok |-> TRUE]))

punycode_encode(inp) == PunyStart(inp, SelectSeq(inp, is_ascii))

(***************************************************************************)
(* Validator/Normalizer.                                                   *)
(***************************************************************************)
\* .map(|encoded| PUNY.to_owned() + encoded.as_str()).unwrap_or_else(|_| decoded.to_owned())
PunyOrSelf(decoded, encoded) ==
    IF encoded.some THEN PUNY \o encoded.val ELSE decoded

help_encode(decoded) ==
    IF \A i \in 1..Len(decoded) : is_ascii(decoded[i]) THEN decoded
    ELSE PunyOrSelf(decoded, punycode_encode(decoded))

encode(decoded) ==
    LET labels == Split(decoded, DOT)
    IN  Join([i \in 1..Len(labels) |-> help_encode(labels[i])], <<DOT>>)

IsInvalidChar(c) == ~is_ascii_alphanumeric(c) /\ c \notin VALID_CHARS

\* the last character is removed whatever it is
StripLast(raw) ==
    IF Len(raw) > 0 THEN SubSeq(raw, 1, Len(raw) - 1) ELSE raw

\* strip_suffix(DOT) or the string itself
StripDot(raw) ==
    IF Len(raw) > 0 /\ raw[Len(raw)] = DOT THEN SubSeq(raw, 1, Len(raw) - 1)
    ELSE raw

\* raw.find(invalid) as a 0-based index: Some(0) for the empty pattern
FindInvalid(raw, invalid) ==
    IF Len(invalid) = 0 THEN 0 ELSE FindChar(raw, invalid[1]) - 1

\* NonZeroUsize::new(index) is None for index 0: nothing is cut
CutAt(raw, index) == IF index = 0 THEN raw ELSE SubSeq(raw, 1, index)

truncate(raw) ==
    StripDot(CutAt(raw, FindInvalid(raw, SelectSeq(raw, IsInvalidChar))))

\* a first character that is a letter or a digit is taken for a letter
is_first_alphanumeric(lables) ==
    \A i \in 1..Len(lables) :
        Len(lables[i]) > 0 /\ is_ascii_alphanumeric(lables[i][1])

is_first_alphabetic(lables) ==
    \A i \in 1..Len(lables) :
        Len(lables[i]) > 0 /\ is_ascii_alphabetic(lables[i][1])

is_last_alphanumeric(lables) ==
    \A i \in 1..Len(lables) :
        Len(lables[i]) > 0 /\ is_ascii_alphanumeric(lables[i][Len(lables[i])])

is_interior_characters_valid(lables) ==
    \A i \in 1..Len(lables) : \A j \in 1..Len(lables[i]) :
        is_alphanumeric(lables[i][j]) \/ lables[i][j] = HYPHEN

\* a label of 63 bytes is refused
upper_limit_below(lables) == \A i \in 1..Len(lables) : Len(lables[i]) < 63

\* str::len is the length in bytes, one byte per ASCII character; a label
\* with a character outside ASCII has been refused by the checks above
upper_limit(lables) == \A i \in 1..Len(lables) : Len(lables[i]) <= 63

lower_limit(lables) == \A i \in 1..Len(lables) : Len(lables[i]) # 0

total_upper_limit(domain) == Len(SelectSeq(domain, LAMBDA c : c # DOT)) <= 255

contains_dot(domain) == DOT \in Range(domain)

\* validate, lines 35 to 46, on the normalized domain and its labels
Checked(domain, lables) ==
    IF contains_dot(domain)
       /\ is_first_alphabetic(lables)
       /\ is_last_alphanumeric(lables)
       /\ is_interior_characters_valid(lables)
       /\ upper_limit(lables)
       /\ lower_limit(lables)
       /\ total_upper_limit(domain)
    THEN Some(domain)
    ELSE None

Normalized(domain) == Checked(domain, Split(domain, DOT))

validate(domain) == Normalized(truncate(encode(domain)))

(***************************************************************************)
(* Parser.                                                                 *)
(***************************************************************************)
\* str::lines: split at line feeds, without a final empty line, each line
\* without one trailing carriage return.
lines(s) ==
    LET parts == Split(s, 10)
        kept  == IF Len(parts[Len(parts)]) = 0
                 THEN SubSeq(parts, 1, Len(parts) - 1) ELSE parts
    IN  [i \in 1..Len(kept) |->
            IF Len(kept[i]) > 0 /\ kept[i][Len(kept[i])] = 13
            THEN SubSeq(kept[i], 1, Len(kept[i]) - 1) ELSE kept[i]]

\* a line that holds a comment is left out as a whole
CutCommentLine(line) ==
    IF FindChar(line, COMMENT) = 0 THEN line ELSE <<>>

\* line.find(COMMENT).map(|index| line[..index]).unwrap_or(line)
CutComment(line) ==
    LET index == FindChar(line, COMMENT)
    IN  IF index = 0 THEN line ELSE SubSeq(line, 1, index - 1)

\* str::split_whitespace, as the set of its tokens: the maximal runs of
\* characters that are not whitespace.
split_whitespace(line) ==
    LET IsStart(i) == ~is_whitespace(line[i]) /\ (i = 1 \/ is_whitespace(line[i - 1]))
        IsEnd(j)   == ~is_whitespace(line[j])
                      /\ (j = Len(line) \/ is_whitespace(line[j + 1]))
    IN  {SubSeq(line, i, j) : <<i, j>> \in
            {ij \in (1..Len(line)) \X (1..Len(line)) :
                /\ ij[1] <= ij[2]
                /\ IsStart(ij[1])
                /\ IsEnd(ij[2])
                /\ \A k \in ij[1]..ij[2] : ~is_whitespace(line[k])}}

\* the tokens of every line, without the comments
Tokens(ls) == UNION {split_whitespace(CutComment(ls[i])) : i \in 1..Len(ls)}

\* .filter_map(validation::validate).collect()
FilterValid(tokens) == {v.val : v \in {o \in {validate(t) : t \in tokens} : o.some}}

parse(raw_data) == FilterValid(Tokens(lines(to_lowercase(raw_data))))

(***************************************************************************)
(* Inputs of the validator and the parser.                                 *)
(***************************************************************************)
\* 'a', 'A', '1', '-', '.', ':', u umlaut
VAlphabet == {97, 65, 49, 45, 46, 58, 252}

Strings(alphabet, n) == UNION {[1..k -> alphabet] : k \in 0..n}

Rep(c, n) == [i \in 1..n |-> c]

\* labels at the 63 character limit and domains at the 255 character limit
LongInputs ==
    {Rep(97, n) \o <<DOT, 97>> : n \in {62, 63, 64}}
    \cup {Rep(97, 63) \o <<DOT>> \o Rep(98, 63) \o <<DOT>> \o Rep(99, 63)
          \o <<DOT>> \o Rep(100, 63) \o <<DOT>> \o Rep(101, n) : n \in {2, 3, 4}}

\* "a.b", "A.B", "U-umlaut.a", "1", " ", line feed, "#", ":"
Pieces == {<<97, 46, 98>>, <<65, 46, 66>>, <<220, 46, 97>>, <<49>>, <<32>>,
           <<10>>, <<35>>, <<58>>}

RECURSIVE Concat(_)
Concat(parts) == IF Len(parts) = 0 THEN <<>> ELSE parts[1] \o Concat(Tail(parts))

Bodies == {Concat(ps) : ps \in UNION {[1..k -> Pieces] : k \in 0..MaxPieces}}

Inputs == Strings(VAlphabet, MaxLen) \cup LongInputs \cup Bodies

(***************************************************************************)
(* Validator driver: validate a token, validate the result again; parse a  *)
(* body.                                                                   *)
(***************************************************************************)
VInit ==
    /\ input \in Inputs
    /\ vout = None
    /\ vagain = None
    /\ pout = {}
    /\ tout = <<>>
    /\ vpc = "start"

VIdle ==
    /\ input = <<>>
    /\ vout = None
    /\ vagain = None
    /\ pout = {}
    /\ tout = <<>>
    /\ vpc = "off"

DoValidate ==
    /\ vpc = "start"
    /\ vout' = validate(input)
    /\ vpc' = "validated"
    /\ UNCHANGED <<input, vagain, pout, tout>>
    /\ UNCHANGED <<pvars, avars, mvars, svars>>

DoRevalidate ==
    /\ vpc = "validated"
    /\ vout.some
    /\ vagain' = validate(vout.val)
    /\ vpc' = "revalidated"
    /\ UNCHANGED <<input, vout, pout, tout>>
    /\ UNCHANGED <<pvars, avars, mvars, svars>>

DoParse ==
    /\ vpc = "start"
    /\ pout' = parse(input)
    /\ vpc' = "parsed"
    /\ UNCHANGED <<input, vout, vagain, tout>>
    /\ UNCHANGED <<pvars, avars, mvars, svars>>

\* truncate on its own, lines 69 to 87
DoTruncate ==
    /\ vpc = "start"
    /\ tout' = truncate(input)
    /\ vpc' = "truncated"
    /\ UNCHANGED <<input, vout, vagain, pout>>
    /\ UNCHANGED <<pvars, avars, mvars, svars>>

VNext == DoValidate \/ DoRevalidate \/ DoParse \/ DoTruncate

(***************************************************************************)
(* Inputs of validate with a label that punycode::encode refuses: the      *)
(* encoder fails when (m - n) * (h + 1) exceeds u32::MAX, that is for a    *)
(* label of 3855 ASCII characters and U+10FFFF.                            *)
(***************************************************************************)
\* U+10FFFF at the start of the label, after two characters, and at its end
RefusedLabels ==
    {<<1114111>> \o Rep(97, 3855),
     <<97, 97, 1114111>> \o Rep(97, 3853),
     Rep(97, 3855) \o <<1114111>>}

\* u umlaut, "a" and u umlaut: labels the encoder accepts
EncodedLabels == {<<252>>, <<97, 252>>}

\* what stands before the label in the token: 'a', '1' and '.'
Prefixes == Strings({97, 49, 46}, MaxPrefix)

\* what stands behind it: nothing, or ".a"
Suffixes == {<<>>, <<46, 97>>}

EInputs ==
    {pre \o label \o suf :
        pre \in Prefixes, label \in RefusedLabels \cup EncodedLabels, suf \in Suffixes}

EInit ==
    /\ input \in EInputs
    /\ vout = None
    /\ vagain = None
    /\ pout = {}
    /\ tout = <<>>
    /\ vpc = "start"

ENext == DoValidate \/ DoRevalidate

(***************************************************************************)
(* Fetcher, Whitelist Resolver and Aggregator.                             *)
(*                                                                         *)
(* A response is [sent, status, text]: sent is FALSE for a transport       *)
(* failure, text is None when the body cannot be decoded.                  *)
(***************************************************************************)
\* the body is taken whatever the status is
fetch_any_status(url, net) ==
    IF ~net[url].sent THEN None ELSE net[url].text

fetch(url, net) ==
    LET response == net[url]
    IN  IF ~response.sent THEN None
        ELSE IF response.status = 200 THEN response.text
        ELSE None

\* fetch is called once for every URL of the set it is mapped over, and each
\* call sends one GET (lines 26 and 54)
Requested(urls, counts) ==
    [u \in DOMAIN counts |-> IF u \in urls THEN counts[u] + 1 ELSE counts[u]]

\* the domains of every source that could be fetched
FetchParse(urls, net) ==
    UNION {parse(body.val) : body \in {b \in {fetch(u, net) : u \in urls} : b.some}}

whitelist(sources, net) ==
    IF sources.some THEN Some(FetchParse(sources.val, net)) ELSE None

\* String's Ord: lexicographic by code point
LexLess(x, y) ==
    \E i \in 1..(Len(x) + 1) :
        /\ i <= Len(y)
        /\ \A j \in 1..(i - 1) : j <= Len(x) /\ x[j] = y[j]
        /\ (i = Len(x) + 1 \/ x[i] < y[i])

\* .unique().sorted().collect_vec()
RECURSIVE sorted(_)
sorted(set) ==
    IF set = {} THEN <<>>
    ELSE LET least == CHOOSE x \in set : \A y \in set \ {x} : LexLess(x, y)
         IN  <<least>> \o sorted(set \ {least})

\* the www. prefix is never removed
KeepWww(domain) == domain

StripWww(domain) ==
    IF Len(Split(domain, DOT)) = 3 /\ starts_with(domain, WWW)
    THEN SubSeq(domain, Len(WWW) + 1, Len(domain))
    ELSE domain

OrEmpty(opt) == IF opt.some THEN opt.val ELSE <<>>

\* mutate with Vec::sort and no .unique(): a value that several domains map
\* to is kept once for each of them
mutate_not_unique(cfg, domains) ==
    LET values    == sorted({StripWww(domain) : domain \in domains})
        Copies(v) == [k \in 1..Cardinality({d \in domains : StripWww(d) = v}) |-> v]
        no_prefix == Concat([i \in 1..Len(values) |-> Copies(values[i])])
        kept      == SelectSeq(no_prefix,
                        LAMBDA d : Len(Split(d, DOT)) = 2 /\ ~starts_with(d, WWW))
        prefix    == [i \in 1..Len(kept) |-> WWW \o kept[i]]
        combined  == no_prefix \o prefix
    IN  [i \in 1..Len(combined) |->
            OrEmpty(cfg.prefix) \o combined[i] \o OrEmpty(cfg.suffix)]

mutate(cfg, domains) ==
    LET no_prefix == sorted({StripWww(domain) : domain \in domains})
        prefix    == sorted({WWW \o domain : domain \in
                        {d \in Range(no_prefix) :
                            Len(Split(d, DOT)) = 2 /\ ~starts_with(d, WWW)}})
        combined  == no_prefix \o prefix
    IN  IF ~cfg.prefix.some /\ ~cfg.suffix.some THEN combined
        ELSE [i \in 1..Len(combined) |->
                 OrEmpty(cfg.prefix) \o combined[i] \o OrEmpty(cfg.suffix)]

\* addlist, lines 16 to 21
\* Option<HashSet>::unwrap_or_default
unwrap_or_default(opt) == IF opt.some THEN opt.val ELSE {}

\* the difference is taken the other way round
local_reduced_swapped(sources, net, global_whitelist) ==
    global_whitelist \ unwrap_or_default(whitelist(sources.whitelist, net))

local_reduced_whitelist(sources, net, global_whitelist) ==
    unwrap_or_default(whitelist(sources.whitelist, net)) \ global_whitelist

\* addlist, lines 23 to 30
filtered(sources, net, global_whitelist, local_reduced) ==
    {domain \in FetchParse(sources.addlist, net) :
        domain \notin global_whitelist /\ domain \notin local_reduced}

(***************************************************************************)
(* Inputs of addlist.                                                      *)
(***************************************************************************)
\* "b.c" LF "www.x.y"
Body1 == <<98, 46, 99, 10, 119, 119, 119, 46, 120, 46, 121>>

\* "www.b.c a.b.c"
Body2 == <<119, 119, 119, 46, 98, 46, 99, 32, 97, 46, 98, 46, 99>>

\* "x.y"
Body3 == <<120, 46, 121>>

Responses ==
    { [sent |-> FALSE, status |-> 0, text |-> None],
      [sent |-> TRUE, status |-> 404, text |-> Some(Body1)],
      [sent |-> TRUE, status |-> 200, text |-> None],
      [sent |-> TRUE, status |-> 200, text |-> Some(Body1)],
      [sent |-> TRUE, status |-> 200, text |-> Some(Body2)],
      [sent |-> TRUE, status |-> 200, text |-> Some(Body3)] }

SourceUrls == {"s1", "s2"}

WhitelistUrls == {"w1"}

\* "b.c", "www.b.c", "x.y"
WhitelistDomains == {<<98, 46, 99>>, <<119, 119, 119, 46, 98, 46, 99>>, <<120, 46, 121>>}

\* "0" and "#" as line prefix and suffix
Affixes == {None, Some(<<48>>)}

(***************************************************************************)
(* addlist, step by step.                                                  *)
(***************************************************************************)
AInit ==
    /\ aweb \in [SourceUrls \cup WhitelistUrls -> Responses]
    /\ \E wl \in {None, Some(WhitelistUrls)}, pre \in Affixes, suf \in Affixes :
          acfg = [addlist |-> SourceUrls, whitelist |-> wl,
                  prefix |-> pre, suffix |-> suf]
    /\ aglobal \in SUBSET WhitelistDomains
    /\ alocal = {}
    /\ adata = {}
    /\ alist = None
    /\ apc = "start"
    /\ arequests = [u \in SourceUrls \cup WhitelistUrls |-> 0]

AIdle ==
    /\ aweb = <<>>
    /\ acfg = <<>>
    /\ aglobal = {}
    /\ alocal = {}
    /\ adata = {}
    /\ alist = None
    /\ apc = "off"
    /\ arequests = <<>>

AddlistLocal ==
    /\ apc = "start"
    /\ alocal' = local_reduced_whitelist(acfg, aweb, aglobal)
    /\ arequests' = Requested(unwrap_or_default(acfg.whitelist), arequests)
    /\ apc' = "local"
    /\ UNCHANGED <<aweb, acfg, aglobal, adata, alist>>
    /\ UNCHANGED <<pvars, vvars, mvars, svars>>

AddlistData ==
    /\ apc = "local"
    /\ adata' = filtered(acfg, aweb, aglobal, alocal)
    /\ arequests' = Requested(acfg.addlist, arequests)
    /\ apc' = "data"
    /\ UNCHANGED <<aweb, acfg, aglobal, alocal, alist>>
    /\ UNCHANGED <<pvars, vvars, mvars, svars>>

AddlistMutate ==
    /\ apc = "data"
    /\ alist' = Some(mutate(acfg, adata))
    /\ apc' = "done"
    /\ UNCHANGED <<aweb, acfg, aglobal, alocal, adata, arequests>>
    /\ UNCHANGED <<pvars, vvars, mvars, svars>>

ANext == AddlistLocal \/ AddlistData \/ AddlistMutate

(***************************************************************************)
(* mutate on its own: applied to a set of canonical domains, then to the   *)
(* set of the lines it returned.                                           *)
(***************************************************************************)
NoAffix == [prefix |-> None, suffix |-> None]

\* "b", "www", "x"
MLabels == {<<98>>, <<119, 119, 119>>, <<120>>}

\* the domains of two and of three labels, and www. before the latter
MDomains ==
    LET two   == {l[1] \o <<DOT>> \o l[2] : l \in [1..2 -> MLabels]}
        three == {l[1] \o <<DOT>> \o l[2] \o <<DOT>> \o l[3] : l \in [1..3 -> MLabels]}
    IN  two \cup three \cup {WWW \o d : d \in three}

\* the sets of at most MaxDomains domains
MSets == {{}} \cup {Range(f) : f \in [1..MaxDomains -> MDomains]}

\* no prefix and no suffix; prefix "0" and suffix "#"
MConfigs == {NoAffix, [prefix |-> Some(<<48>>), suffix |-> Some(<<35>>)]}

MInit ==
    /\ mdomains \in MSets
    /\ mcfg \in MConfigs
    /\ mlist = <<>>
    /\ magain = <<>>
    /\ mpc = "start"

MIdle ==
    /\ mdomains = {}
    /\ mcfg = <<>>
    /\ mlist = <<>>
    /\ magain = <<>>
    /\ mpc = "off"

DoMutate ==
    /\ mpc = "start"
    /\ mlist' = mutate(mcfg, mdomains)
    /\ mpc' = "mutated"
    /\ UNCHANGED <<mdomains, mcfg, magain>>
    /\ UNCHANGED <<pvars, avars, vvars, svars>>

DoMutateAgain ==
    /\ mpc = "mutated"
    /\ magain' = mutate(mcfg, Range(mlist))
    /\ mpc' = "again"
    /\ UNCHANGED <<mdomains, mcfg, mlist>>
    /\ UNCHANGED <<pvars, avars, vvars, svars>>

MNext == DoMutate \/ DoMutateAgain

(***************************************************************************)
(* The Sink: write_to_file.  A file name is [num, name]: num is None for   *)
(* <path>/<name>.addlist and Some(i) for <path>/<i>-<name>.addlist.        *)
(***************************************************************************)
\* carriage return, line feed
CRLF == <<13, 10>>

\* slice::chunks_exact: the elements after the last full chunk are left out
chunks_exact(list, size) ==
    [i \in 1..(Len(list) \div size) |-> SubSeq(list, (i - 1) * size + 1, i * size)]

\* slice::chunks(size): size elements each, the last one what is left
chunks(list, size) ==
    [i \in 1..((Len(list) + size - 1) \div size) |->
        SubSeq(list, (i - 1) * size + 1,
               IF i * size <= Len(list) THEN i * size ELSE Len(list))]

FileName(num, name) == [num |-> num, name |-> name]

\* The files write_to_file has written when it returns.  created is the number
\* of File::create calls that succeed before one fails (0 for no failure is
\* passed as fail): the ? operator returns at the first failure.
Written(list, size, name, fail) ==
    IF size # 0
    THEN LET data == chunks(list, size)
             made == IF fail = 0 \/ fail > Len(data) THEN Len(data) ELSE fail - 1
         IN  [f \in {FileName(Some(num), name) : num \in 0..(made - 1)} |->
                 Join(data[f.num.val + 1], CRLF)]
    ELSE IF fail = 1 THEN <<>>
         ELSE [f \in {FileName(None, name)} |-> Join(list, CRLF)]

\* Ok(()) or the io::Error of the first failing call
WriteResult(list, size, fail) ==
    IF size # 0
    THEN IF fail = 0 \/ fail > Len(chunks(list, size)) THEN "Ok" ELSE "Err"
    ELSE IF fail = 1 THEN "Err" ELSE "Ok"

\* "a.b", "b.c", "x.y"
SLines == {<<97, 46, 98>>, <<98, 46, 99>>, <<120, 46, 121>>}

SInit ==
    /\ slist \in UNION {[1..n -> SLines] : n \in 0..MaxLines}
    /\ ssize \in 0..MaxSize
    /\ sfail \in 0..2
    /\ sfiles = <<>>
    /\ sresult = "none"
    /\ spc = "start"

SIdle ==
    /\ slist = <<>>
    /\ ssize = 0
    /\ sfail = 0
    /\ sfiles = <<>>
    /\ sresult = "none"
    /\ spc = "off"

WriteToFile ==
    /\ spc = "start"
    /\ sfiles' = Written(slist, ssize, "name", sfail)
    /\ sresult' = WriteResult(slist, ssize, sfail)
    /\ spc' = "done"
    /\ UNCHANGED <<slist, ssize, sfail>>
    /\ UNCHANGED <<pvars, avars, vvars, mvars>>

SNext == WriteToFile

(***************************************************************************)
(* Worker pool and run.                                                    *)
(***************************************************************************)
\* Config::default, config.rs line 125: max(num_cpus::get() / 2, 1)
DefaultThreads(num_cpus) == IF num_cpus \div 2 >= 1 THEN num_cpus \div 2 ELSE 1

\* a count above half the logical cores is refused, an absent count is not
\* known
ThreadPool_capacity_upper(threads, num_cpus) ==
    LET limit == num_cpus \div 2
    IN  IF threads # 0
        THEN IF limit < threads THEN None ELSE Some(threads)
        ELSE Some(limit)

\* ThreadPool::new, lines 22 to 33: the capacity, or None for Err.
\* threads = 0 stands for None (Option<NonZeroUsize>).
ThreadPool_capacity(threads, num_cpus) ==
    LET limit == num_cpus \div 2
    IN  IF threads # 0
        THEN IF limit <= threads THEN Some(threads) ELSE None
        ELSE Some(limit)

\* the largest pool a host and a configuration within the bounds can give
MaxWorkers == IF MaxThreads >= MaxCores \div 2 THEN MaxThreads ELSE MaxCores \div 2

NewJob(n) == [type |-> "NewJob", name |-> n]

Terminate == [type |-> "Terminate", name |-> 0]

Workers == 1..capacity

\* a worker thread that has not returned or unwound
Running(w) == wstate[w] \in {"idle", "recv", "job_local", "job_data", "job_write"}

\* The Receiver lives in an Arc held by the worker threads only: it is
\* dropped, with every message still in the channel, when the last worker
\* thread ends.
ReceiverAlive == \E w \in Workers : Running(w)

\* the channel after worker w has ended
QueueAfterExit(w, q) ==
    IF \E v \in Workers \ {w} : Running(v) THEN q ELSE <<>>

\* The Sender is a field of the pool: it is dropped when Drop has returned.
SenderDropped == pc = "done"

\* the AddlistSources of a name
Sources(n) ==
    [addlist   |-> IF n % 2 = 1 THEN {"s1"} ELSE {"s2"},
     whitelist |-> IF n = 1 THEN Some({"w1"}) ELSE None]

PoolWebs ==
    { [g1 |-> g, s1 |-> [sent |-> TRUE, status |-> 200, text |-> Some(Body1)],
       s2 |-> [sent |-> TRUE, status |-> 200, text |-> Some(Body3)],
       w1 |-> [sent |-> TRUE, status |-> 200, text |-> Some(Body2)]]
      : g \in { [sent |-> FALSE, status |-> 0, text |-> None],
                [sent |-> TRUE, status |-> 200, text |-> Some(Body3)] } }

PInit ==
    /\ cores \in 1..MaxCores
    /\ \E t \in (0..MaxThreads) \cup {DefaultThreads(cores)}, k \in 0..MaxJobs,
          wl \in {None, Some({"g1"})} :
          config = [threads |-> t, addlist |-> 1..k, whitelist |-> wl]
    /\ web \in PoolWebs
    /\ pc = "new"
    /\ capacity = 0
    /\ wstate = <<>>
    /\ wjob = <<>>
    /\ wlocal = <<>>
    /\ wdata = <<>>
    /\ lock = 0
    /\ queue = <<>>
    /\ tosubmit = {}
    /\ gwl = {}
    /\ wlbuilds = 0
    /\ jstate = [n \in config.addlist |-> "unsubmitted"]
    /\ jowner = [n \in config.addlist |-> 0]
    /\ dequeues = [n \in config.addlist |-> 0]
    /\ jseen = [n \in config.addlist |-> {}]
    /\ sunk = [n \in config.addlist |-> <<>>]
    /\ termsent = 0
    /\ consumed = <<>>
    /\ sendfail = 0
    /\ joined = 0
    /\ submitted = <<>>
    /\ taken = <<>>

PIdle ==
    /\ cores = 0
    /\ config = <<>>
    /\ web = <<>>
    /\ pc = "off"
    /\ capacity = 0
    /\ wstate = <<>>
    /\ wjob = <<>>
    /\ wlocal = <<>>
    /\ wdata = <<>>
    /\ lock = 0
    /\ queue = <<>>
    /\ tosubmit = {}
    /\ gwl = {}
    /\ wlbuilds = 0
    /\ jstate = <<>>
    /\ jowner = <<>>
    /\ dequeues = <<>>
    /\ jseen = <<>>
    /\ sunk = <<>>
    /\ termsent = 0
    /\ consumed = <<>>
    /\ sendfail = 0
    /\ joined = 0
    /\ submitted = <<>>
    /\ taken = <<>>

\* the Global Whitelist is fetched before the pool is constructed
PoolNewAfterWhitelist ==
    /\ pc = "new"
    /\ gwl' = unwrap_or_default(whitelist(config.whitelist, web))
    /\ wlbuilds' = wlbuilds + 1
    /\ LET cap == ThreadPool_capacity(config.threads, cores)
       IN  IF cap.some
           THEN /\ capacity' = cap.val
                /\ wstate' = [w \in 1..cap.val |-> "idle"]
                /\ wjob' = [w \in 1..cap.val |-> 0]
                /\ wlocal' = [w \in 1..cap.val |-> {}]
                /\ wdata' = [w \in 1..cap.val |-> {}]
                /\ consumed' = [w \in 1..cap.val |-> 0]
                /\ tosubmit' = config.addlist
                /\ pc' = "submit"
           ELSE /\ pc' = "err"
                /\ UNCHANGED <<capacity, wstate, wjob, wlocal, wdata, consumed,
                               tosubmit>>
    /\ UNCHANGED <<cores, config, web, lock, queue, jstate, jowner, dequeues, jseen,
                   sunk, termsent, sendfail, joined>>
    /\ UNCHANGED <<submitted, taken>>
    /\ UNCHANGED <<avars, vvars, mvars, svars>>

\* run, line 66: ThreadPool::new(config.threads)?
PoolNew ==
    /\ pc = "new"
    /\ LET cap == ThreadPool_capacity(config.threads, cores)
       IN  IF cap.some
           THEN /\ capacity' = cap.val
                /\ wstate' = [w \in 1..cap.val |-> "idle"]
                /\ wjob' = [w \in 1..cap.val |-> 0]
                /\ wlocal' = [w \in 1..cap.val |-> {}]
                /\ wdata' = [w \in 1..cap.val |-> {}]
                /\ consumed' = [w \in 1..cap.val |-> 0]
                /\ pc' = "whitelist"
           ELSE /\ pc' = "err"
                /\ UNCHANGED <<capacity, wstate, wjob, wlocal, wdata, consumed>>
    /\ UNCHANGED <<cores, config, web, lock, queue, tosubmit, gwl, wlbuilds, jstate,
                   jowner, dequeues, jseen, sunk, termsent, sendfail, joined>>
    /\ UNCHANGED <<submitted, taken>>
    /\ UNCHANGED <<avars, vvars, mvars, svars>>

\* run, lines 68 to 69: whitelist(config.whitelist.clone(), &config).unwrap_or_default()
BuildWhitelist ==
    /\ pc = "whitelist"
    /\ gwl' = unwrap_or_default(whitelist(config.whitelist, web))
    /\ wlbuilds' = wlbuilds + 1
    /\ tosubmit' = config.addlist
    /\ pc' = "submit"
    /\ UNCHANGED <<cores, config, web, capacity, wstate, wjob, wlocal, wdata, lock,
                   queue, jstate, jowner, dequeues, jseen, sunk, termsent, consumed,
                   sendfail, joined>>
    /\ UNCHANGED <<submitted, taken>>
    /\ UNCHANGED <<avars, vvars, mvars, svars>>

\* the Global Whitelist is computed again inside the loop, once per name
ExecuteRebuilding(n) ==
    /\ pc = "submit"
    /\ n \in tosubmit
    /\ tosubmit' = tosubmit \ {n}
    /\ gwl' = unwrap_or_default(whitelist(config.whitelist, web))
    /\ wlbuilds' = wlbuilds + 1
    /\ IF ReceiverAlive
       THEN /\ queue' = Append(queue, NewJob(n))
            /\ jstate' = [jstate EXCEPT ![n] = "queued"]
            /\ submitted' = Append(submitted, n)
            /\ UNCHANGED sendfail
       ELSE /\ sendfail' = sendfail + 1
            /\ jstate' = [jstate EXCEPT ![n] = "unsent"]
            /\ UNCHANGED <<queue, submitted>>
    /\ UNCHANGED <<cores, config, web, pc, capacity, wstate, wjob, wlocal, wdata,
                   lock, jowner, dequeues, jseen, sunk, termsent, consumed, joined>>
    /\ UNCHANGED taken
    /\ UNCHANGED <<avars, vvars, mvars, svars>>

\* the Err of send is returned to run, which ends with it
ExecuteAbort(n) ==
    /\ pc = "submit"
    /\ n \in tosubmit
    /\ tosubmit' = tosubmit \ {n}
    /\ IF ReceiverAlive
       THEN /\ queue' = Append(queue, NewJob(n))
            /\ jstate' = [jstate EXCEPT ![n] = "queued"]
            /\ submitted' = Append(submitted, n)
            /\ UNCHANGED <<sendfail, pc>>
       ELSE /\ sendfail' = sendfail + 1
            /\ jstate' = [jstate EXCEPT ![n] = "unsent"]
            /\ pc' = "err"
            /\ UNCHANGED <<queue, submitted>>
    /\ UNCHANGED <<cores, config, web, capacity, wstate, wjob, wlocal, wdata,
                   lock, gwl, wlbuilds, jowner, dequeues, jseen, sunk, termsent,
                   consumed, joined>>
    /\ UNCHANGED taken
    /\ UNCHANGED <<avars, vvars, mvars, svars>>

\* run, lines 70 to 81, one iteration; ThreadPool::execute
Execute(n) ==
    /\ pc = "submit"
    /\ n \in tosubmit
    /\ tosubmit' = tosubmit \ {n}
    /\ IF ReceiverAlive
       THEN /\ queue' = Append(queue, NewJob(n))
            /\ jstate' = [jstate EXCEPT ![n] = "queued"]
            /\ submitted' = Append(submitted, n)
            /\ UNCHANGED sendfail
       ELSE /\ sendfail' = sendfail + 1
            /\ jstate' = [jstate EXCEPT ![n] = "unsent"]
            /\ UNCHANGED <<queue, submitted>>
    /\ UNCHANGED <<cores, config, web, pc, capacity, wstate, wjob, wlocal, wdata,
                   lock, gwl, wlbuilds, jowner, dequeues, jseen, sunk, termsent,
                   consumed, joined>>
    /\ UNCHANGED taken
    /\ UNCHANGED <<avars, vvars, mvars, svars>>

\* run, line 83: Ok(()); the pool goes out of scope and Drop starts
RunReturn ==
    /\ pc = "submit"
    /\ tosubmit = {}
    /\ pc' = "drop_send"
    /\ UNCHANGED <<cores, config, web, capacity, wstate, wjob, wlocal, wdata, lock,
                   queue, tosubmit, gwl, wlbuilds, jstate, jowner, dequeues, jseen,
                   sunk, termsent, consumed, sendfail, joined>>
    /\ UNCHANGED <<submitted, taken>>
    /\ UNCHANGED <<avars, vvars, mvars, svars>>

\* Drop, lines 67 to 69, one iteration: send(Message::Terminate).unwrap_or_default()
DropSend ==
    /\ pc = "drop_send"
    /\ termsent < capacity
    /\ termsent' = termsent + 1
    /\ queue' = IF ReceiverAlive THEN Append(queue, Terminate) ELSE queue
    /\ UNCHANGED <<cores, config, web, pc, capacity, wstate, wjob, wlocal, wdata,
                   lock, tosubmit, gwl, wlbuilds, jstate, jowner, dequeues, jseen,
                   sunk, consumed, sendfail, joined>>
    /\ UNCHANGED <<submitted, taken>>
    /\ UNCHANGED <<avars, vvars, mvars, svars>>

\* the first loop ends after one Terminate
DropSendEndEarly ==
    /\ pc = "drop_send"
    /\ termsent >= 1 \/ capacity = 0
    /\ pc' = "drop_join"
    /\ UNCHANGED <<cores, config, web, capacity, wstate, wjob, wlocal, wdata, lock,
                   queue, tosubmit, gwl, wlbuilds, jstate, jowner, dequeues, jseen,
                   sunk, termsent, consumed, sendfail, joined>>
    /\ UNCHANGED <<submitted, taken>>
    /\ UNCHANGED <<avars, vvars, mvars, svars>>

\* Drop, line 69: the end of the first loop
DropSendEnd ==
    /\ pc = "drop_send"
    /\ termsent = capacity
    /\ pc' = "drop_join"
    /\ UNCHANGED <<cores, config, web, capacity, wstate, wjob, wlocal, wdata, lock,
                   queue, tosubmit, gwl, wlbuilds, jstate, jowner, dequeues, jseen,
                   sunk, termsent, consumed, sendfail, joined>>
    /\ UNCHANGED <<submitted, taken>>
    /\ UNCHANGED <<avars, vvars, mvars, svars>>

\* the handle is taken without waiting for the thread
DropJoinNoWait ==
    /\ pc = "drop_join"
    /\ joined < capacity
    /\ joined' = joined + 1
    /\ UNCHANGED <<cores, config, web, pc, capacity, wstate, wjob, wlocal, wdata,
                   lock, queue, tosubmit, gwl, wlbuilds, jstate, jowner, dequeues,
                   jseen, sunk, termsent, consumed, sendfail>>
    /\ UNCHANGED <<submitted, taken>>
    /\ UNCHANGED <<avars, vvars, mvars, svars>>

\* Drop, lines 73 to 85, one iteration: thread.join() returns when the
\* worker's thread has ended
DropJoin ==
    /\ pc = "drop_join"
    /\ joined < capacity
    /\ ~Running(joined + 1)
    /\ joined' = joined + 1
    /\ UNCHANGED <<cores, config, web, pc, capacity, wstate, wjob, wlocal, wdata,
                   lock, queue, tosubmit, gwl, wlbuilds, jstate, jowner, dequeues,
                   jseen, sunk, termsent, consumed, sendfail>>
    /\ UNCHANGED <<submitted, taken>>
    /\ UNCHANGED <<avars, vvars, mvars, svars>>

\* Drop, line 86: Drop returns, the fields of the pool are dropped
DropEnd ==
    /\ pc = "drop_join"
    /\ joined = capacity
    /\ pc' = "done"
    /\ UNCHANGED <<cores, config, web, capacity, wstate, wjob, wlocal, wdata, lock,
                   queue, tosubmit, gwl, wlbuilds, jstate, jowner, dequeues, jseen,
                   sunk, termsent, consumed, sendfail, joined>>
    /\ UNCHANGED <<submitted, taken>>
    /\ UNCHANGED <<avars, vvars, mvars, svars>>

\* Worker::new, line 110: receiver.lock()
WorkerLock(w) ==
    /\ w \in Workers
    /\ wstate[w] = "idle"
    /\ lock = 0
    /\ lock' = w
    /\ wstate' = [wstate EXCEPT ![w] = "recv"]
    /\ UNCHANGED <<cores, config, web, pc, capacity, wjob, wlocal, wdata, queue,
                   tosubmit, gwl, wlbuilds, jstate, jowner, dequeues, jseen, sunk,
                   termsent, consumed, sendfail, joined>>
    /\ UNCHANGED <<submitted, taken>>
    /\ UNCHANGED <<avars, vvars, mvars, svars>>

\* a job is read from the channel and left in it
WorkerRecvPeek(w) ==
    /\ w \in Workers
    /\ wstate[w] = "recv"
    /\ lock = w
    /\ lock' = 0
    /\ IF queue # <<>>
       THEN LET message == Head(queue)
            IN  IF message.type = "NewJob"
                THEN /\ queue' = queue
                     /\ wstate' = [wstate EXCEPT ![w] = "job_local"]
                     /\ wjob' = [wjob EXCEPT ![w] = message.name]
                     /\ jstate' = [jstate EXCEPT ![message.name] = "running"]
                     /\ jowner' = [jowner EXCEPT ![message.name] = w]
                     /\ dequeues' = [dequeues EXCEPT ![message.name] = @ + 1]
                     /\ taken' = Append(taken, message.name)
                     /\ UNCHANGED consumed
                ELSE /\ queue' = QueueAfterExit(w, Tail(queue))
                     /\ wstate' = [wstate EXCEPT ![w] = "exited"]
                     /\ consumed' = [consumed EXCEPT ![w] = @ + 1]
                     /\ UNCHANGED <<wjob, jstate, jowner, dequeues, taken>>
       ELSE \* Ok(Err(_)): the channel is empty and the Sender is gone
            /\ SenderDropped
            /\ wstate' = [wstate EXCEPT ![w] = "exited"]
            /\ UNCHANGED <<queue, wjob, jstate, jowner, dequeues, consumed, taken>>
    /\ UNCHANGED <<cores, config, web, pc, capacity, wlocal, wdata, tosubmit, gwl,
                   wlbuilds, jseen, sunk, termsent, sendfail, joined>>
    /\ UNCHANGED submitted
    /\ UNCHANGED <<avars, vvars, mvars, svars>>

\* the message sent last is received first
WorkerRecvLast(w) ==
    /\ w \in Workers
    /\ wstate[w] = "recv"
    /\ lock = w
    /\ lock' = 0
    /\ IF queue # <<>>
       THEN LET message == queue[Len(queue)]
            IN  IF message.type = "NewJob"
                THEN /\ queue' = SubSeq(queue, 1, Len(queue) - 1)
                     /\ wstate' = [wstate EXCEPT ![w] = "job_local"]
                     /\ wjob' = [wjob EXCEPT ![w] = message.name]
                     /\ jstate' = [jstate EXCEPT ![message.name] = "running"]
                     /\ jowner' = [jowner EXCEPT ![message.name] = w]
                     /\ dequeues' = [dequeues EXCEPT ![message.name] = @ + 1]
                     /\ taken' = Append(taken, message.name)
                     /\ UNCHANGED consumed
                ELSE /\ queue' = QueueAfterExit(w, SubSeq(queue, 1, Len(queue) - 1))
                     /\ wstate' = [wstate EXCEPT ![w] = "exited"]
                     /\ consumed' = [consumed EXCEPT ![w] = @ + 1]
                     /\ UNCHANGED <<wjob, jstate, jowner, dequeues, taken>>
       ELSE \* Ok(Err(_)): the channel is empty and the Sender is gone
            /\ SenderDropped
            /\ wstate' = [wstate EXCEPT ![w] = "exited"]
            /\ UNCHANGED <<queue, wjob, jstate, jowner, dequeues, consumed, taken>>
    /\ UNCHANGED <<cores, config, web, pc, capacity, wlocal, wdata, tosubmit, gwl,
                   wlbuilds, jseen, sunk, termsent, sendfail, joined>>
    /\ UNCHANGED submitted
    /\ UNCHANGED <<avars, vvars, mvars, svars>>

\* the guard is kept while the job runs
WorkerRecvHolding(w) ==
    /\ w \in Workers
    /\ wstate[w] = "recv"
    /\ lock = w
    /\ lock' = (IF queue # <<>> /\ Head(queue).type = "NewJob" THEN w ELSE 0)
    /\ IF queue # <<>>
       THEN LET message == Head(queue)
            IN  IF message.type = "NewJob"
                THEN /\ queue' = Tail(queue)
                     /\ wstate' = [wstate EXCEPT ![w] = "job_local"]
                     /\ wjob' = [wjob EXCEPT ![w] = message.name]
                     /\ jstate' = [jstate EXCEPT ![message.name] = "running"]
                     /\ jowner' = [jowner EXCEPT ![message.name] = w]
                     /\ dequeues' = [dequeues EXCEPT ![message.name] = @ + 1]
                     /\ taken' = Append(taken, message.name)
                     /\ UNCHANGED consumed
                ELSE /\ queue' = QueueAfterExit(w, Tail(queue))
                     /\ wstate' = [wstate EXCEPT ![w] = "exited"]
                     /\ consumed' = [consumed EXCEPT ![w] = @ + 1]
                     /\ UNCHANGED <<wjob, jstate, jowner, dequeues, taken>>
       ELSE \* Ok(Err(_)): the channel is empty and the Sender is gone
            /\ SenderDropped
            /\ wstate' = [wstate EXCEPT ![w] = "exited"]
            /\ UNCHANGED <<queue, wjob, jstate, jowner, dequeues, consumed, taken>>
    /\ UNCHANGED <<cores, config, web, pc, capacity, wlocal, wdata, tosubmit, gwl,
                   wlbuilds, jseen, sunk, termsent, sendfail, joined>>
    /\ UNCHANGED submitted
    /\ UNCHANGED <<avars, vvars, mvars, svars>>

\* Worker::new, lines 110 to 132: guard.recv() returns, the guard is dropped,
\* and the message is matched
WorkerRecv(w) ==
    /\ w \in Workers
    /\ wstate[w] = "recv"
    /\ lock = w
    /\ lock' = 0
    /\ IF queue # <<>>
       THEN LET message == Head(queue)
            IN  IF message.type = "NewJob"
                THEN /\ queue' = Tail(queue)
                     /\ wstate' = [wstate EXCEPT ![w] = "job_local"]
                     /\ wjob' = [wjob EXCEPT ![w] = message.name]
                     /\ jstate' = [jstate EXCEPT ![message.name] = "running"]
                     /\ jowner' = [jowner EXCEPT ![message.name] = w]
                     /\ dequeues' = [dequeues EXCEPT ![message.name] = @ + 1]
                     /\ taken' = Append(taken, message.name)
                     /\ UNCHANGED consumed
                ELSE /\ queue' = QueueAfterExit(w, Tail(queue))
                     /\ wstate' = [wstate EXCEPT ![w] = "exited"]
                     /\ consumed' = [consumed EXCEPT ![w] = @ + 1]
                     /\ UNCHANGED <<wjob, jstate, jowner, dequeues, taken>>
       ELSE \* Ok(Err(_)): the channel is empty and the Sender is gone
            /\ SenderDropped
            /\ wstate' = [wstate EXCEPT ![w] = "exited"]
            /\ UNCHANGED <<queue, wjob, jstate, jowner, dequeues, consumed, taken>>
    /\ UNCHANGED <<cores, config, web, pc, capacity, wlocal, wdata, tosubmit, gwl,
                   wlbuilds, jseen, sunk, termsent, sendfail, joined>>
    /\ UNCHANGED submitted
    /\ UNCHANGED <<avars, vvars, mvars, svars>>

\* the job, main.rs line 75, addlist lines 16 to 21
JobLocal(w) ==
    /\ w \in Workers
    /\ wstate[w] = "job_local"
    /\ wlocal' = [wlocal EXCEPT ![w] = local_reduced_whitelist(Sources(wjob[w]), web, gwl)]
    /\ jseen' = [jseen EXCEPT ![wjob[w]] = @ \cup {gwl}]
    /\ wstate' = [wstate EXCEPT ![w] = "job_data"]
    /\ UNCHANGED <<cores, config, web, pc, capacity, wjob, wdata, lock, queue,
                   tosubmit, gwl, wlbuilds, jstate, jowner, dequeues, sunk, termsent,
                   consumed, sendfail, joined>>
    /\ UNCHANGED <<submitted, taken>>
    /\ UNCHANGED <<avars, vvars, mvars, svars>>

\* the domain set is a buffer shared by the workers
JobDataSharedBuffer(w) ==
    /\ w \in Workers
    /\ wstate[w] = "job_data"
    /\ wdata' = [wdata EXCEPT ![w] =
                    filtered(Sources(wjob[w]), web, gwl, wlocal[w])
                        \cup UNION {wdata[v] : v \in Workers}]
    /\ jseen' = [jseen EXCEPT ![wjob[w]] = @ \cup {gwl}]
    /\ wstate' = [wstate EXCEPT ![w] = "job_write"]
    /\ UNCHANGED <<cores, config, web, pc, capacity, wjob, wlocal, lock, queue,
                   tosubmit, gwl, wlbuilds, jstate, jowner, dequeues, sunk, termsent,
                   consumed, sendfail, joined>>
    /\ UNCHANGED <<submitted, taken>>
    /\ UNCHANGED <<avars, vvars, mvars, svars>>

\* the job, addlist lines 23 to 30
JobData(w) ==
    /\ w \in Workers
    /\ wstate[w] = "job_data"
    /\ wdata' = [wdata EXCEPT ![w] = filtered(Sources(wjob[w]), web, gwl, wlocal[w])]
    /\ jseen' = [jseen EXCEPT ![wjob[w]] = @ \cup {gwl}]
    /\ wstate' = [wstate EXCEPT ![w] = "job_write"]
    /\ UNCHANGED <<cores, config, web, pc, capacity, wjob, wlocal, lock, queue,
                   tosubmit, gwl, wlbuilds, jstate, jowner, dequeues, sunk, termsent,
                   consumed, sendfail, joined>>
    /\ UNCHANGED <<submitted, taken>>
    /\ UNCHANGED <<avars, vvars, mvars, svars>>

\* the job, addlist lines 32 to 35 and main.rs lines 76 to 78: mutate, then
\* write_to_file; the worker loops
JobWrite(w) ==
    /\ w \in Workers
    /\ wstate[w] = "job_write"
    /\ sunk' = [sunk EXCEPT ![wjob[w]] = Append(@, mutate(NoAffix, wdata[w]))]
    /\ jstate' = [jstate EXCEPT ![wjob[w]] = "finished"]
    /\ wstate' = [wstate EXCEPT ![w] = "idle"]
    /\ wjob' = [wjob EXCEPT ![w] = 0]
    /\ wlocal' = [wlocal EXCEPT ![w] = {}]
    /\ wdata' = [wdata EXCEPT ![w] = {}]
    /\ UNCHANGED <<cores, config, web, pc, capacity, lock, queue, tosubmit, gwl,
                   wlbuilds, jowner, dequeues, jseen, termsent, consumed, sendfail,
                   joined>>
    /\ UNCHANGED <<submitted, taken>>
    /\ UNCHANGED <<avars, vvars, mvars, svars>>

\* the panicking worker's thread is replaced by a new one
JobPanicRespawn(w) ==
    /\ w \in Workers
    /\ wstate[w] \in {"job_local", "job_data", "job_write"}
    /\ wstate' = [wstate EXCEPT ![w] = "idle"]
    /\ jstate' = [jstate EXCEPT ![wjob[w]] = "panicked"]
    /\ wjob' = [wjob EXCEPT ![w] = 0]
    /\ wlocal' = [wlocal EXCEPT ![w] = {}]
    /\ wdata' = [wdata EXCEPT ![w] = {}]
    /\ UNCHANGED <<cores, config, web, pc, capacity, lock, queue, tosubmit, gwl,
                   wlbuilds, jowner, dequeues, jseen, sunk, termsent, consumed,
                   sendfail, joined>>
    /\ UNCHANGED <<submitted, taken>>
    /\ UNCHANGED <<avars, vvars, mvars, svars>>

\* the job panics: the worker's thread unwinds (line 116, outside the lock)
JobPanic(w) ==
    /\ w \in Workers
    /\ wstate[w] \in {"job_local", "job_data", "job_write"}
    /\ wstate' = [wstate EXCEPT ![w] = "panicked"]
    /\ jstate' = [jstate EXCEPT ![wjob[w]] = "panicked"]
    /\ wjob' = [wjob EXCEPT ![w] = 0]
    /\ wlocal' = [wlocal EXCEPT ![w] = {}]
    /\ wdata' = [wdata EXCEPT ![w] = {}]
    /\ queue' = QueueAfterExit(w, queue)
    /\ UNCHANGED <<cores, config, web, pc, capacity, lock, tosubmit, gwl, wlbuilds,
                   jowner, dequeues, jseen, sunk, termsent, consumed, sendfail,
                   joined>>
    /\ UNCHANGED <<submitted, taken>>
    /\ UNCHANGED <<avars, vvars, mvars, svars>>

\* Drop, from its first statement to its return
DropNext ==
    \/ DropSend
    \/ DropSendEnd
    \/ DropJoin
    \/ DropEnd

\* worker w between two jobs: it takes the lock and a message
ReceiveNext(w) ==
    \/ WorkerLock(w)
    \/ WorkerRecv(w)

PNext ==
    \/ PoolNew
    \/ BuildWhitelist
    \/ \E n \in 1..MaxJobs : Execute(n)
    \/ RunReturn
    \/ DropSend
    \/ DropSendEnd
    \/ DropJoin
    \/ DropEnd
    \/ \E w \in 1..MaxWorkers : WorkerLock(w)
    \/ \E w \in 1..MaxWorkers : WorkerRecv(w)
    \/ \E w \in 1..MaxWorkers : JobLocal(w)
    \/ \E w \in 1..MaxWorkers : JobData(w)
    \/ \E w \in 1..MaxWorkers : JobWrite(w)
    \/ \E w \in 1..MaxWorkers : JobPanic(w)

(***************************************************************************)
(* Specifications.                                                         *)
(***************************************************************************)
vars == <<pvars, avars, vvars, mvars, svars>>

\* the pool running one job per addlist name
Init == PInit /\ AIdle /\ VIdle /\ MIdle /\ SIdle

Spec == Init /\ [][PNext]_vars

\* The main thread inside Drop and a worker that waits for the lock or for a
\* message are scheduled in the end.  A job in progress does not run for
\* ever: it comes to its end or it panics.  JobPanic(w) is enabled exactly
\* while worker w is inside a job, so weak fairness of it says that w leaves
\* the job, by JobWrite or by JobPanic.
Fairness ==
    /\ WF_vars(DropNext)
    /\ \A w \in 1..MaxWorkers : WF_vars(ReceiveNext(w))
    /\ \A w \in 1..MaxWorkers : WF_vars(JobPanic(w))

\* Drop does not read the Global Whitelist: the pool with none configured
InitFair == Init /\ ~config.whitelist.some /\ ~web["g1"].sent

FairSpec == InitFair /\ [][PNext]_vars /\ Fairness

\* addlist on its own
InitAddlist == PIdle /\ AInit /\ VIdle /\ MIdle /\ SIdle

SpecAddlist == InitAddlist /\ [][ANext]_vars

\* validate and parse on their own
InitValidate == PIdle /\ AIdle /\ VInit /\ MIdle /\ SIdle

SpecValidate == InitValidate /\ [][VNext]_vars

\* validate on tokens with a label the encoder refuses
InitEncode == PIdle /\ AIdle /\ EInit /\ MIdle /\ SIdle

SpecEncode == InitEncode /\ [][ENext]_vars

\* mutate on its own
InitMutate == PIdle /\ AIdle /\ VIdle /\ MInit /\ SIdle

SpecMutate == InitMutate /\ [][MNext]_vars

\* write_to_file on its own
InitSink == PIdle /\ AIdle /\ VIdle /\ MIdle /\ SInit

SpecSink == InitSink /\ [][SNext]_vars

(***************************************************************************)
(* Claims about the worker pool, checked under Spec.                       *)
(***************************************************************************)
NoPanic == \A n \in config.addlist : jstate[n] # "panicked"

IsTerminate(message) == message.type = "Terminate"

Max(x, y) == IF x >= y THEN x ELSE y

\* C1: when Drop has returned and no job has panicked, every job submitted
\* with execute has been run to completion, for every successfully
\* constructed pool.
C1_AllSubmittedJobsRun ==
    (pc = "done" /\ NoPanic) =>
        \A n \in config.addlist : jstate[n] = "finished"

\* C2: for a requested thread count, ThreadPool::new fails if and only if the
\* count is greater than floor(logical_cores / 2), and a pool that is built has
\* exactly the requested number of workers.
C2_NewFailsIffAboveHalf ==
    (pc # "new" /\ config.threads # 0) =>
        /\ (pc = "err") <=> (config.threads > cores \div 2)
        /\ (pc # "err") => (capacity = config.threads)

\* C4: when Drop has returned, every job other than the ones that panicked
\* has been run to completion, for every pool that has workers, a pool of one
\* worker included.
C4_PanicDoesNotAbortOthers ==
    (pc = "done" /\ capacity >= 1) =>
        \A n \in config.addlist : jstate[n] # "panicked" => jstate[n] = "finished"

\* C5: with no thread count configured the pool has floor(logical_cores / 2)
\* workers, but never fewer than one.
C5_DefaultAtLeastOneWorker ==
    (pc \notin {"new", "err"} /\ config.threads = 0) =>
        capacity = Max(cores \div 2, 1)

\* C6: Terminate is sent only by Drop, once per worker; a worker that has
\* returned from its loop has received exactly one Terminate and no worker
\* receives two; a worker that has received Terminate has no job in progress;
\* and Drop returns only when every worker thread has ended.
C6_TerminateProtocol ==
    /\ pc \in {"new", "whitelist", "submit", "err"} => termsent = 0
    /\ pc \in {"drop_join", "done"} => termsent = capacity
    /\ termsent <= capacity
    /\ Cardinality({w \in Workers : consumed[w] = 1})
           + Len(SelectSeq(queue, IsTerminate)) <= termsent
    /\ \A w \in Workers :
          /\ consumed[w] <= 1
          /\ (wstate[w] = "exited") <=> (consumed[w] = 1)
          /\ consumed[w] = 1 =>
                /\ wjob[w] = 0
                /\ \A n \in config.addlist : jowner[n] = w => jstate[n] # "running"
    /\ pc = "done" => \A w \in Workers : ~Running(w)

\* C6 witness: Drop has returned from a pool of two workers that both ran a
\* job and then each received one Terminate.
C6_Witness ==
    /\ pc = "done"
    /\ capacity = 2
    /\ \A w \in Workers : wstate[w] = "exited" /\ consumed[w] = 1
    /\ \A w \in Workers : \E n \in config.addlist :
          jowner[n] = w /\ jstate[n] = "finished"

\* C7: the job of each addlist name is received from the channel at most
\* once, is run by at most one worker, and its result is handed to
\* write_to_file at most once.
C7_AtMostOnce ==
    \A n \in config.addlist :
        /\ dequeues[n] <= 1
        /\ Cardinality({w \in Workers : wjob[w] = n}) <= 1
        /\ Len(sunk[n]) <= 1
        /\ Len(SelectSeq(queue, LAMBDA m : m = NewJob(n))) <= 1
        /\ jstate[n] = "finished" => Len(sunk[n]) = 1

\* C7 witness: two workers have been running at once, and both names have
\* been written, each once.
C7_Witness ==
    /\ capacity = 2
    /\ Cardinality(config.addlist) = 2
    /\ \A n \in config.addlist : jstate[n] = "finished" /\ Len(sunk[n]) = 1
    /\ \E n, m \in config.addlist : jowner[n] = 1 /\ jowner[m] = 2

\* C8: the Global Whitelist is computed at most once, it has been computed
\* when the first job is submitted, it never changes once computed, and every
\* read of it by a job gives that one set.
C8_WhitelistOnce ==
    /\ [](wlbuilds <= 1)
    /\ []((\E n \in config.addlist : jstate[n] # "unsubmitted") => wlbuilds = 1)
    /\ [](\A n \in config.addlist : jseen[n] \subseteq {gwl})
    /\ [][wlbuilds >= 1 => gwl' = gwl]_vars

\* C8 witness: two jobs have read a Global Whitelist that is not empty.
C8_Witness ==
    /\ gwl # {}
    /\ \E n, m \in config.addlist : n # m /\ jseen[n] = {gwl} /\ jseen[m] = {gwl}

(***************************************************************************)
(* Claims about addlist, checked under SpecAddlist.                        *)
(***************************************************************************)
\* C3: with no prefix and no suffix configured, no domain of the Global
\* Whitelist is a line of the list addlist returns, after the www expansion.
C3_NoWhitelistedLine ==
    (apc = "done" /\ ~acfg.prefix.some /\ ~acfg.suffix.some) =>
        \A d \in aglobal : d \notin Range(alist.val)

(***************************************************************************)
(* Claims about validate and parse, checked under SpecValidate.            *)
(***************************************************************************)
IsLetter(c) == (c >= 65 /\ c <= 90) \/ (c >= 97 /\ c <= 122)

IsDigit(c) == c >= 48 /\ c <= 57

\* the canonical form of a domain as the claim words it
CanonicalLabel(label) ==
    /\ Len(label) >= 1
    /\ Len(label) <= 63
    /\ IsLetter(label[1])
    /\ IsLetter(label[Len(label)]) \/ IsDigit(label[Len(label)])
    /\ \A j \in 2..(Len(label) - 1) :
          IsLetter(label[j]) \/ IsDigit(label[j]) \/ label[j] = 45

IsCanonical(s) ==
    /\ \A i \in 1..Len(s) : s[i] < 128
    /\ \E i \in 1..Len(s) : s[i] = 46
    /\ \A i \in 1..Len(Split(s, 46)) : CanonicalLabel(Split(s, 46)[i])
    /\ Cardinality({i \in 1..Len(s) : s[i] # 46}) <= 255

IsLowercase(s) == \A i \in 1..Len(s) : ~(s[i] >= 65 /\ s[i] <= 90)

\* C9: every value validate returns is a canonical domain, a token whose
\* normalized form is not canonical yields no value, and every element of
\* parse's result is canonical and lowercase.
C9_Canonical ==
    /\ vpc = "validated" =>
          /\ vout.some => IsCanonical(vout.val)
          /\ ~IsCanonical(truncate(encode(input))) => ~vout.some
    /\ vpc = "parsed" => \A d \in pout : IsCanonical(d) /\ IsLowercase(d)

\* C9 witness: validate has returned a domain whose first label is the
\* punycode of a label outside ASCII.
C9_Witness ==
    /\ vpc = "validated"
    /\ vout.some
    /\ \E i \in 1..Len(input) : input[i] >= 128
    /\ starts_with(vout.val, PUNY)

\* C10: validate applied to a value validate returned gives that value.
C10_Idempotent == vpc = "revalidated" => vagain = vout

\* C10 witness: validate has been applied to its own result for an input
\* that it had to cut.
C10_Witness ==
    /\ vpc = "revalidated"
    /\ vagain.some
    /\ Len(vout.val) < Len(input)

(***************************************************************************)
(* Claims about mutate, checked under SpecMutate.                          *)
(***************************************************************************)
Labels(domain) == Split(domain, 46)

\* two labels, and not starting with "www."
IsBare(domain) ==
    /\ Len(Labels(domain)) = 2
    /\ ~(Len(domain) >= 4 /\ SubSeq(domain, 1, 4) = <<119, 119, 119, 46>>)

\* three labels, the first of them "www"
IsWwwForm(domain) ==
    Len(Labels(domain)) = 3 /\ Labels(domain)[1] = <<119, 119, 119>>

\* the domain without its first four characters
Bare(domain) == SubSeq(domain, 5, Len(domain))

WithWww(domain) == <<119, 119, 119, 46>> \o domain

\* x <= y in the order of String: by code point, a prefix first
LexLeq(x, y) ==
    \/ \E i \in 1..Len(x) :
          /\ i <= Len(y)
          /\ SubSeq(x, 1, i - 1) = SubSeq(y, 1, i - 1)
          /\ x[i] < y[i]
    \/ (Len(x) <= Len(y) /\ x = SubSeq(y, 1, Len(x)))

\* C11: with no prefix and no suffix, for every input domain of two labels
\* that does not start with "www." the output holds the domain and the domain
\* with "www." before it; for every input domain of three labels whose first
\* label is "www" the output holds its two-label form and the input domain
\* itself; and the inputs {b}, {www.b} and {b, www.b} all give <<b, www.b>>.
C11_BothForms ==
    (mpc = "mutated" /\ mcfg = NoAffix) =>
        /\ \A d \in mdomains :
              /\ IsBare(d) =>
                    d \in Range(mlist) /\ WithWww(d) \in Range(mlist)
              /\ IsWwwForm(d) =>
                    Bare(d) \in Range(mlist) /\ WithWww(Bare(d)) \in Range(mlist)
        /\ \A b \in MDomains :
              (IsBare(b) /\ mdomains # {} /\ mdomains \subseteq {b, WithWww(b)}) =>
                  mlist = <<b, WithWww(b)>>

\* C12: the line sequence mutate returns is sorted ascending by code point
\* over its whole length.
C12_SortedWhole ==
    mpc = "mutated" =>
        \A i \in 1..(Len(mlist) - 1) : LexLeq(mlist[i], mlist[i + 1])

\* C13: the line sequence mutate returns holds no line twice.
C13_NoDuplicateLine ==
    mpc = "mutated" =>
        \A i, j \in 1..Len(mlist) : i # j => mlist[i] # mlist[j]

\* C13 witness: mutate has returned for an input that holds a two-label
\* domain together with its www. form.
C13_Witness ==
    /\ mpc = "mutated"
    /\ \E d \in mdomains : IsBare(d) /\ WithWww(d) \in mdomains
    /\ Len(mlist) >= 2

\* C14: with no prefix and no suffix, mutate applied to the set of the lines
\* mutate returned gives the same sequence again.
C14_FixedPoint ==
    (mpc = "again" /\ mcfg = NoAffix) => magain = mlist

\* C14 witness: mutate has been applied again to an output that holds both a
\* generated www. line and a line reduced from a www. form.
C14_Witness ==
    /\ mpc = "again"
    /\ mcfg = NoAffix
    /\ \E d \in mdomains : IsWwwForm(d) /\ IsBare(Bare(d))
    /\ \E d \in mdomains : IsBare(d) /\ WithWww(d) \notin mdomains
    /\ Len(magain) >= 4

(***************************************************************************)
(* Claims about parse, checked under SpecValidate.                         *)
(***************************************************************************)
IsSpace(c) == c \in {9, 10, 11, 12, 13, 32}

\* text[i..j] is a token: a maximal run of characters that are neither
\* whitespace nor '#', with no '#' between the start of its line and i
IsToken(text, i, j) ==
    /\ i <= j
    /\ \A k \in i..j : ~IsSpace(text[k]) /\ text[k] # 35
    /\ i = 1 \/ IsSpace(text[i - 1])
    /\ j = Len(text) \/ IsSpace(text[j + 1]) \/ text[j + 1] = 35
    /\ \A k \in 1..(i - 1) :
          text[k] = 35 => \E n \in (k + 1)..(i - 1) : text[n] = 10

\* the end of the token that starts at i, or 0 when none starts there
TokenEnd(text, i) ==
    IF \E j \in i..Len(text) : IsToken(text, i, j)
    THEN CHOOSE j \in i..Len(text) : IsToken(text, i, j)
    ELSE 0

\* the values validate returns for the tokens of the lowercased text
TokenResults(text) ==
    {r.val : r \in {o \in {validate(SubSeq(text, i, TokenEnd(text, i))) :
                                  i \in {k \in 1..Len(text) : TokenEnd(text, k) # 0}} :
                      o.some}}

\* C15: parse's result is exactly the set of the values validate returns for
\* the whitespace-separated tokens of each line of the lowercased body cut at
\* its first '#'; nothing at or after that '#' gives a domain, and a token
\* validate rejects changes nothing for the other tokens.
C15_ParseIsTokenResults ==
    vpc = "parsed" => pout = TokenResults(to_lowercase(input))

\* C15 witness: a body has been parsed that holds a '#' in the middle of a
\* token, with a domain before it and text after it.
C15_Witness ==
    /\ vpc = "parsed"
    /\ pout # {}
    /\ \E k \in 2..(Len(input) - 1) :
          /\ input[k] = 35
          /\ ~IsSpace(input[k - 1])
          /\ ~IsSpace(input[k + 1])
          /\ input[k + 1] # 35

(***************************************************************************)
(* Claims about fetch inside addlist, checked under SpecAddlist.           *)
(***************************************************************************)
\* the GET failed at transport level or was answered with another status
GetFailed(response) == ~response.sent \/ response.status # 200

\* a 200 answer with an empty body
EmptyBody == [sent |-> TRUE, status |-> 200, text |-> [some |-> TRUE, val |-> <<>>]]

\* C16: when addlist has returned, every source URL whose GET failed or was
\* answered with a status other than 200 has been requested exactly once, and
\* the Addlist returned is there and equals the one addlist returns when that
\* URL answers 200 with an empty body.
C16_FailedSourceIsEmpty ==
    apc = "done" =>
        \A u \in acfg.addlist :
            GetFailed(aweb[u]) =>
                /\ arequests[u] = 1
                /\ alist.some
                /\ alist.val =
                      mutate(acfg, filtered(acfg, [aweb EXCEPT ![u] = EmptyBody],
                                            aglobal, alocal))

\* C16 witness: addlist has returned lines although one of its two sources
\* answered 404 with a body of domains.
C16_Witness ==
    /\ apc = "done"
    /\ \E u, v \in acfg.addlist :
          /\ aweb[u].sent /\ aweb[u].status = 404 /\ aweb[u].text.some
          /\ aweb[v].sent /\ aweb[v].status = 200 /\ aweb[v].text.some
    /\ alist.some
    /\ Len(alist.val) > 0

(***************************************************************************)
(* Claims about write_to_file, checked under SpecSink.                     *)
(***************************************************************************)
\* the lines of a file's content: the pieces between CR LF pairs, none for
\* the empty content
FileLines(content) ==
    IF content = <<>> THEN <<>>
    ELSE LET pieces == Split(content, 10)
         IN  [k \in 1..Len(pieces) |->
                 IF k < Len(pieces)
                 THEN SubSeq(pieces[k], 1, Len(pieces[k]) - 1)
                 ELSE pieces[k]]

\* the lines of the files numbered 0 to count - 1, in that order
ChunkFileLines(count) ==
    Concat([i \in 1..count |-> FileLines(sfiles[FileName(Some(i - 1), "name")])])

\* C17: when write_to_file has returned Ok, with a chunk size s the files
\* written are numbered 0, 1, ... without a gap, each holds at most s lines
\* and all but the last exactly s, and their lines in the order of the numbers
\* are the line sequence; without a chunk size there is one file and its lines
\* are the line sequence.
C17_ChunksKeepLines ==
    (spc = "done" /\ sresult = "Ok") =>
        IF ssize # 0
        THEN LET count == Cardinality(DOMAIN sfiles)
             IN  /\ DOMAIN sfiles = {FileName(Some(i), "name") : i \in 0..(count - 1)}
                 /\ \A i \in 0..(count - 1) :
                       LET n == Len(FileLines(sfiles[FileName(Some(i), "name")]))
                       IN  /\ n >= 1
                           /\ n <= ssize
                           /\ i < count - 1 => n = ssize
                 /\ ChunkFileLines(count) = slist
        ELSE /\ DOMAIN sfiles = {FileName(None, "name")}
             /\ FileLines(sfiles[FileName(None, "name")]) = slist

\* C17 witness: three lines have been written with a chunk size of two, to a
\* full file and a last file of one line.
C17_Witness ==
    /\ spc = "done"
    /\ sresult = "Ok"
    /\ ssize = 2
    /\ Len(slist) = 3
    /\ slist[1] # slist[2]
    /\ Cardinality(DOMAIN sfiles) = 2

(***************************************************************************)
(* Claims about the order of the channel, the lock and the end of Drop,    *)
(* checked under Spec and FairSpec.                                        *)
(***************************************************************************)
IsNewJob(message) == message.type = "NewJob"

InJob(w) == wstate[w] \in {"job_local", "job_data", "job_write"}

\* C18: Terminate is in the channel only once Drop has started; the jobs
\* received are, in their order, the first of the jobs sent; and no worker
\* receives Terminate while a job is waiting in the channel.
C18_DrainInOrder ==
    /\ []((\E i \in 1..Len(queue) : IsTerminate(queue[i])) =>
              pc \in {"drop_send", "drop_join", "done"})
    /\ [](/\ Len(taken) <= Len(submitted)
          /\ taken = SubSeq(submitted, 1, Len(taken)))
    /\ [][\A w \in DOMAIN consumed :
              consumed'[w] # consumed[w] =>
                  \A i \in 1..Len(queue) : ~IsNewJob(queue[i])]_vars

\* C18 witness: one worker has received two jobs in the order they were sent
\* and then Terminate.
C18_Witness ==
    /\ capacity = 1
    /\ Len(submitted) = 2
    /\ taken = submitted
    /\ consumed[1] = 1
    /\ \A n \in config.addlist : jstate[n] = "finished"

\* C19: the worker that holds the lock is waiting in recv and runs no job;
\* and while a worker is inside a job and a job is first in the channel, for
\* an idle worker either the lock is free and it can take it, or the worker
\* that holds the lock can receive the job.
C19_LockOnlyInRecv ==
    /\ lock # 0 => (wstate[lock] = "recv" /\ wjob[lock] = 0)
    /\ \A w \in Workers :
          (/\ wstate[w] = "idle"
           /\ \E v \in Workers : InJob(v)
           /\ queue # <<>>
           /\ IsNewJob(Head(queue))) =>
              IF lock = 0
              THEN ENABLED WorkerLock(w)
              ELSE ENABLED WorkerRecv(lock)

\* C19 witness: two workers are inside a job at the same time.
C19_Witness ==
    \E w, v \in Workers : w # v /\ InJob(w) /\ InJob(v)

\* C20: once Drop has started it returns, whatever workers have panicked
\* or ended before.
C20_DropReturns == (pc = "drop_send") ~> (pc = "done")

\* C20 witness: Drop has returned from a pool of two workers that both
\* panicked.
C20_Witness ==
    /\ pc = "done"
    /\ capacity = 2
    /\ \A w \in Workers : wstate[w] = "panicked"

(***************************************************************************)
(* Claims about the size of the pool and about execute, checked under      *)
(* Spec.                                                                   *)
(***************************************************************************)
LiveWorkers == {w \in Workers : Running(w)}

RunningJobs == {n \in config.addlist : jstate[n] = "running"}

PanickedJobs == {n \in config.addlist : jstate[n] = "panicked"}

\* C21: the jobs being executed are at most as many as the live workers, and
\* the live workers at most the pool size less one for every job that has
\* panicked; the pool size is fixed by ThreadPool::new; a worker thread that
\* has ended stays ended; and a job that has panicked or finished is not
\* received or run again.
C21_FixedPool ==
    /\ [](/\ Cardinality(RunningJobs) = Cardinality({w \in Workers : InJob(w)})
          /\ Cardinality(RunningJobs) <= Cardinality(LiveWorkers)
          /\ Cardinality(LiveWorkers) + Cardinality(PanickedJobs) <= capacity
          /\ \A n \in config.addlist : dequeues[n] <= 1)
    /\ [][pc # "new" => capacity' = capacity]_vars
    /\ [][\A w \in Workers :
              wstate[w] \in {"panicked", "exited"} => wstate'[w] = wstate[w]]_vars
    /\ [][\A n \in config.addlist :
              jstate[n] \in {"panicked", "finished"} => jstate'[n] = jstate[n]]_vars

\* C21 witness: of two workers one has panicked inside a job and the other
\* is inside the second job.
C21_Witness ==
    /\ capacity = 2
    /\ \E w, v \in Workers : wstate[w] = "panicked" /\ InJob(v)
    /\ Cardinality(PanickedJobs) = 1
    /\ Cardinality(RunningJobs) = 1

\* C22: execute can always be called and returns, whatever the workers are
\* doing; a send that fails changes nothing of the pool but the count of
\* logged failures, and run goes on to the next name; when run has left its
\* loop every name has been attempted.
C22_ExecuteNeverBlocks ==
    /\ [](\A n \in 1..MaxJobs :
              (pc = "submit" /\ n \in tosubmit) => ENABLED Execute(n))
    /\ [][sendfail' # sendfail =>
              /\ sendfail' = sendfail + 1
              /\ pc' = "submit"
              /\ UNCHANGED <<queue, capacity, wstate, wjob, lock, termsent, joined,
                             consumed, sunk, gwl>>]_vars
    /\ [](pc \in {"drop_send", "drop_join", "done"} =>
              \A n \in config.addlist : jstate[n] # "unsubmitted")

\* C22 witness: the only worker has panicked in the first job, the send of
\* the second job has failed, and run has gone on to its end.
C22_Witness ==
    /\ capacity = 1
    /\ wstate[1] = "panicked"
    /\ sendfail = 1
    /\ \E n \in config.addlist : jstate[n] = "unsent"
    /\ pc = "done"

\* C23: while the pool has not been dropped no send of execute fails, so
\* that every name run has attempted is in the channel, running, finished or
\* panicked, and none has been dropped unsent.
C23_SendNeverFails ==
    pc \in {"new", "whitelist", "submit", "drop_send", "drop_join", "done"} =>
        /\ sendfail = 0
        /\ \A n \in config.addlist : jstate[n] # "unsent"

\* C24: when ThreadPool::new has returned Err, run has returned with nothing
\* done: the Global Whitelist has not been computed, there are no workers, no
\* job has been sent, received or run, and nothing has been handed to
\* write_to_file.
C24_ErrBeforeAnything ==
    pc = "err" =>
        /\ wlbuilds = 0
        /\ gwl = {}
        /\ capacity = 0
        /\ queue = <<>>
        /\ submitted = <<>>
        /\ taken = <<>>
        /\ sendfail = 0
        /\ termsent = 0
        /\ \A n \in config.addlist :
              /\ jstate[n] = "unsubmitted"
              /\ dequeues[n] = 0
              /\ jseen[n] = {}
              /\ sunk[n] = <<>>

\* C24 witness: construction has been rejected for a configuration that has
\* a Global Whitelist source which answers and two addlist names.
C24_Witness ==
    /\ pc = "err"
    /\ config.whitelist.some
    /\ web["g1"].sent
    /\ Cardinality(config.addlist) = 2

(***************************************************************************)
(* Claims about the whitelists of addlist, checked under SpecAddlist.      *)
(***************************************************************************)
\* the domains of the sources of the addlist
SourceDomains == FetchParse(acfg.addlist, aweb)

\* the Local Whitelist before it is reduced
LocalWhitelist == unwrap_or_default(whitelist(acfg.whitelist, aweb))

\* the configuration with an empty set of Local Whitelist URLs
WithEmptyWhitelist == [acfg EXCEPT !.whitelist = Some({})]

\* C25: the domains addlist keeps are the source domains that are neither in
\* the Global Whitelist nor in the Local Whitelist, which is what filtering
\* with the unreduced Local Whitelist gives; and with no Local Whitelist
\* configured they are what an empty set of whitelist URLs gives.
C25_ReductionIsNeutral ==
    apc \in {"data", "done"} =>
        /\ adata = {d \in SourceDomains : d \notin aglobal /\ d \notin LocalWhitelist}
        /\ adata = filtered(acfg, aweb, aglobal, LocalWhitelist)
        /\ ~acfg.whitelist.some =>
              /\ alocal = local_reduced_whitelist(WithEmptyWhitelist, aweb, aglobal)
              /\ adata = filtered(WithEmptyWhitelist, aweb, aglobal, {})

\* C25 witness: the sources hold a domain of both whitelists, one of the
\* Local Whitelist only, one of the Global Whitelist only and one of neither,
\* and the domains have been filtered.
C25_Witness ==
    /\ apc = "data"
    /\ \E d \in SourceDomains : d \in aglobal /\ d \in LocalWhitelist
    /\ \E d \in SourceDomains : d \notin aglobal /\ d \in LocalWhitelist
    /\ \E d \in SourceDomains : d \in aglobal /\ d \notin LocalWhitelist
    /\ adata # {}
    /\ alocal # LocalWhitelist

(***************************************************************************)
(* Claims about labels punycode::encode refuses, checked under SpecEncode. *)
(***************************************************************************)
\* a label outside ASCII that the encoder refuses
IsRefused(label) ==
    /\ \E i \in 1..Len(label) : ~is_ascii(label[i])
    /\ ~punycode_encode(label).some

HasRefusedLabel(token) ==
    \E i \in 1..Len(Split(token, DOT)) : IsRefused(Split(token, DOT)[i])

\* C26: validate returns no value for a token that has a label outside ASCII
\* which punycode::encode refuses.
C26_RefusedLabelRejected ==
    (vpc = "validated" /\ HasRefusedLabel(input)) => ~vout.some

(***************************************************************************)
(* Claims about truncate and the limits of validate, checked under         *)
(* SpecValidate.                                                           *)
(***************************************************************************)
\* a character that is an ASCII letter, a digit, '-' or '.'
IsDomainChar(c) == IsLetter(c) \/ IsDigit(c) \/ c = 45 \/ c = 46

\* the part of the string before its first character that is none of these
ValidPrefix(s) ==
    IF \A i \in 1..Len(s) : IsDomainChar(s[i]) THEN s
    ELSE SubSeq(s, 1,
             (CHOOSE i \in 1..Len(s) :
                 ~IsDomainChar(s[i]) /\ \A j \in 1..(i - 1) : IsDomainChar(s[j])) - 1)

\* the string without one trailing '.'
WithoutFinalDot(s) ==
    IF Len(s) > 0 /\ s[Len(s)] = 46 THEN SubSeq(s, 1, Len(s) - 1) ELSE s

\* C27: truncate returns the part of its input before the first character
\* that is not an ASCII letter, a digit, '-' or '.', without one trailing
\* '.', wherever that character stands, the first position included.
C27_TruncateCutsAtFirstInvalid ==
    vpc = "truncated" => tout = WithoutFinalDot(ValidPrefix(input))

\* the characters of the string other than '.'
NonDotCount(s) == Cardinality({i \in 1..Len(s) : s[i] # 46})

HasLabelOver63(s) == \E i \in 1..Len(Split(s, 46)) : Len(Split(s, 46)[i]) > 63

OnlyDomainChars(s) == \A i \in 1..Len(s) : IsDomainChar(s[i])

\* C28: validate returns a canonical ASCII domain unchanged, one with a
\* label of 63 characters or with 255 characters other than '.' included; a
\* string of letters, digits, '-' and '.' with a label of more than 63
\* characters or with more than 255 characters other than '.' yields no
\* value.
C28_CanonicalUnchanged ==
    vpc = "validated" =>
        /\ IsCanonical(input) => vout = Some(input)
        /\ (OnlyDomainChars(input) /\ HasLabelOver63(input)) => ~vout.some
        /\ (OnlyDomainChars(input) /\ NonDotCount(input) > 255) => ~vout.some

\* C28 witness: validate has returned unchanged a domain with labels of 63
\* characters and 255 characters other than '.'.
C28_Witness ==
    /\ vpc = "validated"
    /\ vout = Some(input)
    /\ NonDotCount(input) = 255
    /\ \E i \in 1..Len(Split(input, 46)) : Len(Split(input, 46)[i]) = 63

(***************************************************************************)
(* Claims about the result of a job and the default thread count, checked  *)
(* under Spec.                                                             *)
(***************************************************************************)
\* the Global Whitelist of the configuration
ExpectedWhitelist == unwrap_or_default(whitelist(config.whitelist, web))

\* the lines of a name, from the responses of its URLs and the Global
\* Whitelist alone
ExpectedLines(n) ==
    mutate(NoAffix,
           filtered(Sources(n), web, ExpectedWhitelist,
                    local_reduced_whitelist(Sources(n), web, ExpectedWhitelist)))

====
